---- MODULE Spec2Model ----
(***************************************************************************)
(* aurum-node (aurum-node/src/main.rs): a status server.  main() computes  *)
(* a Merkle root over a two-record mempool, builds a Status from it, binds *)
(* an HTTP server and answers every request of the incoming queue: the     *)
(* status JSON for GET /status, 404 "Not Found" for everything else.       *)
(*                                                                         *)
(* merkle_root and leaf_hash live in the crate aurum_pentest::merkle,      *)
(* whose source is not part of src/; they are modelled from spec.md        *)
(* section 4.1.  A digest is represented by the canonical prefix encoding  *)
(* of what was hashed (an ideal, collision-free hash), as a sequence of    *)
(* bytes, so that hex::encode has something to encode.                     *)
(***************************************************************************)
EXTENDS Integers, Sequences, FiniteSets, TLC

VARIABLES
    pc,         \* where main() is: "root", "bind", "serving", or a panic
    policy,     \* the odd-level policy of the merkle crate (fixed, unknown)
    height,     \* let height (line 9)
    mempool,    \* let mempool (line 9)
    root,       \* let root (line 10): a sequence of bytes
    status,     \* let status (line 11): <<>> or <<Status>>
    rootCalls,  \* number of calls of merkle_root so far
    arrived,    \* every request received by the server, in arrival order
    incoming,   \* server.incoming_requests(): received, not yet taken
    cur,        \* the loop variable request: <<>> or <<request>>
    responses   \* every request.respond(..) made, in order

vars == <<pc, policy, height, mempool, root, status, rootCalls,
          arrived, incoming, cur, responses>>

----------------------------------------------------------------------------
(* Bounds *)

\* requests a run receives
MaxRequests == 2
\* leaves of a generated mempool
MaxLeaves == 3

----------------------------------------------------------------------------
(* Data *)

\* b"demo-tx-1", b"demo-tx-2"
DemoTx1 == <<100, 101, 109, 111, 45, 116, 120, 45, 49>>
DemoTx2 == <<100, 101, 109, 111, 45, 116, 120, 45, 50>>

Records == {DemoTx1, DemoTx2}

Policies == {"duplicate", "promote"}

\* the requests a client sends: the status query, another method on the
\* same URL, and GET on URLs that differ from /status by a suffix
Requests ==
    {[method |-> "GET", url |-> "/status"],
     [method |-> "POST", url |-> "/status"],
     [method |-> "GET", url |-> "/status/"],
     [method |-> "GET", url |-> "/status?x=1"]}

RECURSIVE SeqsUpTo(_, _)
SeqsUpTo(S, n) ==
    IF n = 0 THEN {<<>>}
    ELSE LET shorter == SeqsUpTo(S, n - 1)
         IN  shorter \cup {Append(s, x) : s \in {t \in shorter : Len(t) = n - 1}, x \in S}

----------------------------------------------------------------------------
(* aurum_pentest::merkle, from spec.md 4.1 *)

LeafTag == 0
NodeTag == 1

\* leaf_hash(record): the digest of the leaf-tagged record
leaf_hash(record) == <<LeafTag, Len(record)>> \o record

\* lexicographic order on digests
RECURSIVE lex_leq(_, _)
lex_leq(a, b) ==
    IF Len(a) = 0 THEN TRUE
    ELSE IF Len(b) = 0 THEN FALSE
    ELSE IF a[1] # b[1] THEN a[1] < b[1]
    ELSE lex_leq(Tail(a), Tail(b))

node_hash_sorted(l, r) ==
    IF lex_leq(l, r) THEN <<NodeTag>> \o l \o r ELSE <<NodeTag>> \o r \o l

\* the digest of the node-tagged concatenation of two child digests
node_hash(l, r) == <<NodeTag>> \o l \o r

\* one level up: adjacent digests paired left to right; an unpaired last
\* digest is paired with itself ("duplicate") or moved up as is ("promote")
RECURSIVE next_level(_, _)
next_level(level, pol) ==
    IF Len(level) = 0 THEN <<>>
    ELSE IF Len(level) = 1
         THEN IF pol = "duplicate"
              THEN <<node_hash(level[1], level[1])>>
              ELSE <<level[1]>>
         ELSE <<node_hash(level[1], level[2])>>
              \o next_level(SubSeq(level, 3, Len(level)), pol)

RECURSIVE reduce_levels(_, _)
reduce_levels(level, pol) ==
    IF Len(level) = 1 THEN level[1]
    ELSE reduce_levels(next_level(level, pol), pol)

Ok(v) == [ok |-> TRUE, val |-> v, err |-> ""]
Err(e) == [ok |-> FALSE, val |-> <<>>, err |-> e]

merkle_root_default_on_empty(leaves, pol) ==
    IF Len(leaves) = 0 THEN Ok(leaf_hash(<<>>))
    ELSE Ok(reduce_levels([i \in 1..Len(leaves) |-> leaf_hash(leaves[i])], pol))

\* merkle_root(leaves): EmptyInput over zero leaves, else the root
merkle_root(leaves, pol) ==
    IF Len(leaves) = 0 THEN Err("EmptyInput")
    ELSE Ok(reduce_levels([i \in 1..Len(leaves) |-> leaf_hash(leaves[i])], pol))

----------------------------------------------------------------------------
(* hex::encode and serde_json::to_string as main() uses them *)

HexDigits == <<"0", "1", "2", "3", "4", "5", "6", "7",
               "8", "9", "a", "b", "c", "d", "e", "f">>

\* hex::encode(bytes): two lowercase digits per byte, high nibble first
hex_encode(bytes) ==
    [i \in 1..(2 * Len(bytes)) |->
        LET b == bytes[(i + 1) \div 2]
        IN  IF i % 2 = 1 THEN HexDigits[(b \div 16) + 1] ELSE HexDigits[(b % 16) + 1]]

DecDigits == <<"0", "1", "2", "3", "4", "5", "6", "7", "8", "9">>

\* an unsigned integer as serde_json writes it
RECURSIVE decimal(_)
decimal(n) ==
    IF n < 10 THEN <<DecDigits[n + 1]>>
    ELSE decimal(n \div 10) \o <<DecDigits[(n % 10) + 1]>>

\* struct Status (line 6)
Status(h, len, hex) == [tip_height |-> h, mempool_len |-> len, state_root_hex |-> hex]

\* serde_json::to_string(&status): the fields in declaration order
to_string(st) ==
    <<"{", "\"tip_height\"", ":">> \o decimal(st.tip_height)
    \o <<",", "\"mempool_len\"", ":">> \o decimal(st.mempool_len)
    \o <<",", "\"state_root_hex\"", ":", "\"">> \o st.state_root_hex \o <<"\"", "}">>

----------------------------------------------------------------------------
(* main() *)

StatusRequest == [method |-> "GET", url |-> "/status"]

\* line 10: the slices handed to merkle_root, one per mempool entry, in order
leaves_of_drop_first(mp) == IF Len(mp) = 0 THEN mp ELSE Tail(mp)

leaves_of(mp) == [i \in 1..Len(mp) |-> mp[i]]

\* line 16: the status the "/status" arm serialises is the one of line 11
served_status_live(st, answered) ==
    [st EXCEPT !.tip_height = st.tip_height + answered]

served_status(st, answered) == st

\* lines 15-17: the response built for a request
response_for_url_only(request, st, answered) ==
    IF request.url = "/status"
    THEN [code |-> 200, headers |-> <<"Content-Type: application/json">>,
          body |-> to_string(served_status(st, answered))]
    ELSE [code |-> 404, headers |-> <<>>, body |-> <<"Not Found">>]

response_for_lowercase_get(request, st, answered) ==
    IF request.method = "get" /\ request.url = "/status"
    THEN [code |-> 200, headers |-> <<"Content-Type: application/json">>,
          body |-> to_string(served_status(st, answered))]
    ELSE [code |-> 404, headers |-> <<>>, body |-> <<"Not Found">>]

response_for(request, st, answered) ==
    IF request.method = "GET" /\ request.url = "/status"
    THEN [code |-> 200, headers |-> <<"Content-Type: application/json">>,
          body |-> to_string(served_status(st, answered))]
    ELSE [code |-> 404, headers |-> <<>>, body |-> <<"Not Found">>]

\* lines 16-17: let _ = request.respond(..): the result is dropped
after_respond_unwrap(delivered) == IF delivered THEN "serving" ELSE "panic_respond"

after_respond(delivered) == "serving"

\* line 14: the iterator yields the oldest request not yet taken
pop_newest(queue) ==
    [request |-> queue[Len(queue)], rest |-> SubSeq(queue, 1, Len(queue) - 1)]

pop(queue) == [request |-> Head(queue), rest |-> Tail(queue)]

InitCommon ==
    /\ pc = "root"
    /\ policy \in Policies
    /\ height = 0
    /\ root = <<>>
    /\ status = <<>>
    /\ rootCalls = 0
    /\ arrived = <<>>
    /\ incoming = <<>>
    /\ cur = <<>>
    /\ responses = <<>>

\* line 9
Init ==
    /\ InitCommon
    /\ mempool = <<DemoTx1, DemoTx2>>

\* main() over any mempool of at most MaxLeaves records
InitLeaves ==
    /\ InitCommon
    /\ mempool \in SeqsUpTo(Records, MaxLeaves)

\* lines 10-11: merkle_root(..).unwrap(), then the Status
Startup ==
    /\ pc = "root"
    /\ rootCalls' = rootCalls + 1
    /\ LET res == merkle_root(leaves_of(mempool), policy)
       IN  IF res.ok
           THEN /\ root' = res.val
                /\ status' = <<Status(height, Len(mempool), hex_encode(res.val))>>
                /\ pc' = "bind"
           ELSE /\ pc' = "panic_unwrap"
                /\ UNCHANGED <<root, status>>
    /\ UNCHANGED <<policy, height, mempool, arrived, incoming, cur, responses>>

\* line 12: Server::http(..).expect("bind")
Bind ==
    /\ pc = "bind"
    /\ \E bound \in BOOLEAN : pc' = IF bound THEN "serving" ELSE "panic_bind"
    /\ UNCHANGED <<policy, height, mempool, root, status, rootCalls,
                   arrived, incoming, cur, responses>>

\* a client's request reaches the listening server
Arrive ==
    /\ pc = "serving"
    /\ Len(arrived) < MaxRequests
    /\ \E request \in Requests :
          /\ arrived' = Append(arrived, request)
          /\ incoming' = Append(incoming, request)
    /\ UNCHANGED <<pc, policy, height, mempool, root, status, rootCalls, cur, responses>>

\* line 14: the loop takes the next request
Take ==
    /\ pc = "serving"
    /\ cur = <<>>
    /\ incoming # <<>>
    /\ cur' = <<pop(incoming).request>>
    /\ incoming' = pop(incoming).rest
    /\ UNCHANGED <<pc, policy, height, mempool, root, status, rootCalls, arrived, responses>>

\* lines 15-18: the match and request.respond(..), delivered or not
Dispatch ==
    /\ pc = "serving"
    /\ cur # <<>>
    /\ \E delivered \in BOOLEAN :
          /\ responses' = Append(responses,
                [request |-> cur[1], delivered |-> delivered,
                 response |-> response_for(cur[1], status[1], Len(responses))])
          /\ pc' = after_respond(delivered)
    /\ cur' = <<>>
    /\ UNCHANGED <<policy, height, mempool, root, status, rootCalls, arrived, incoming>>

Next == Startup \/ Bind \/ Arrive \/ Take \/ Dispatch

Spec == Init /\ [][Next]_vars

SpecLeaves == InitLeaves /\ [][Next]_vars

----------------------------------------------------------------------------
(* Properties *)

Range(f) == {f[i] : i \in DOMAIN f}

LowerHex == {"0", "1", "2", "3", "4", "5", "6", "7", "8", "9", "a", "b", "c", "d", "e", "f"}

NotFoundBody == <<"Not Found">>

IsStatusResponse(i) == responses[i].request = StatusRequest

\* the root of the records as they are now, under the crate's policy
RootNow == merkle_root(mempool, policy).val

\* the step in which the loop answers a GET /status
StatusQueryStep ==
    /\ cur # <<>>
    /\ cur[1] = StatusRequest
    /\ responses' # responses

(* C1: every response to a request that is exactly GET /status is the JSON
   document of the status, holding tip_height, mempool_len and the root as
   a lowercase hexadecimal string, and is never the 404 "Not Found". *)
C1_StatusGetsJson ==
    \A i \in DOMAIN responses :
        IsStatusResponse(i) =>
            LET r == responses[i].response
            IN  /\ r.code = 200
                /\ r.body # NotFoundBody
                /\ r.headers = <<"Content-Type: application/json">>
                /\ r.body = to_string(status[1])
                /\ {"\"tip_height\"", "\"mempool_len\"", "\"state_root_hex\""} \subseteq Range(r.body)
                /\ Range(status[1].state_root_hex) \subseteq LowerHex
                /\ Len(status[1].state_root_hex) = 2 * Len(root)
                /\ Len(root) > 0

C1_Witness ==
    \E i \in DOMAIN responses : IsStatusResponse(i) /\ responses[i].delivered

(* C2: every response to a request other than exactly GET /status (another
   method on /status, or GET on another URL such as /status/ or
   /status?x=1) has status code 404 and body "Not Found", never the status
   JSON. *)
C2_OthersGetNotFound ==
    \A i \in DOMAIN responses :
        ~IsStatusResponse(i) =>
            LET r == responses[i].response
            IN  /\ r.code = 404
                /\ r.body = NotFoundBody
                /\ r.body # to_string(status[1])

C2_Witness ==
    /\ Len(responses) = 2
    /\ responses[1].request = [method |-> "POST", url |-> "/status"]
    /\ responses[2].request.method = "GET"
    /\ responses[2].request.url # "/status"

(* C3: merkle_root is called exactly once, before the first request is
   received, and every response to GET /status carries the same body, that
   of the first one, whatever requests came in between. *)
C3_StatusFixed ==
    /\ pc # "root" => rootCalls = 1
    /\ arrived # <<>> => rootCalls = 1 /\ status # <<>>
    /\ \A i, j \in DOMAIN responses :
          IsStatusResponse(i) /\ IsStatusResponse(j) =>
              responses[i].response = responses[j].response

C3_Witness ==
    /\ Len(responses) = 2
    /\ IsStatusResponse(1)
    /\ IsStatusResponse(2)

(* C4, as claimed: every GET /status query calls merkle_root for that
   query. *)
C4_RootPerQuery == [][StatusQueryStep => rootCalls' = rootCalls + 1]_vars

(* C4, amended: a GET /status query calls merkle_root not at all; the root
   it carries is the one computed by the single call at startup, which is
   the root of the pending records at the time of the query, because these
   never change. *)
C4_RootFromStartup ==
    [][StatusQueryStep =>
          /\ rootCalls' = rootCalls
          /\ rootCalls = 1
          /\ mempool' = mempool
          /\ responses'[Len(responses')].response.body
                = to_string(Status(height, Len(mempool), hex_encode(RootNow)))]_vars

C4_Witness ==
    /\ Len(responses) = 2
    /\ ~IsStatusResponse(1)
    /\ IsStatusResponse(2)
    /\ rootCalls = 1

(* C5: over zero leaves merkle_root reports the failure EmptyInput and
   yields no root; over a non-empty sequence it returns a root and does not
   fail. *)
C5_EmptyInputOnly ==
    pc # "root" =>
        /\ mempool = <<>> => pc = "panic_unwrap" /\ root = <<>> /\ status = <<>>
        /\ mempool # <<>> => pc # "panic_unwrap" /\ root # <<>> /\ status # <<>>

C5_Witness ==
    /\ mempool = <<>>
    /\ pc = "panic_unwrap"

(* C6: a failure of the root computation reaches the HTTP handler, so the
   program goes on to serve and does not end without serving. *)
C6_RootFailureIsServed ==
    (rootCalls = 1 /\ ~merkle_root(mempool, policy).ok) => pc \in {"bind", "serving"}

Swap(s, i, j) ==
    [k \in 1..Len(s) |-> IF k = i THEN s[j] ELSE IF k = j THEN s[i] ELSE s[k]]

(* C7: swapping two leaves that hold different records changes the root,
   for every sequence of at least two leaves. *)
C7_OrderSensitive ==
    pc \in {"bind", "serving"} =>
        \A i, j \in 1..Len(mempool) :
            (i < j /\ mempool[i] # mempool[j]) =>
                /\ merkle_root(Swap(mempool, i, j), policy).ok
                /\ merkle_root(Swap(mempool, i, j), policy).val # root

C7_Witness ==
    /\ pc = "serving"
    /\ Len(mempool) = 3
    /\ mempool[1] # mempool[3]
    /\ policy = "promote"

(* C8: every status response has tip_height 0 and mempool_len 2, the
   number of leaves its root was computed over (demo-tx-1, demo-tx-2, in
   that order), and no request changes the height, the mempool or the
   root. *)
C8_FixedDemoStatus ==
    /\ height = 0
    /\ mempool = <<DemoTx1, DemoTx2>>
    /\ pc \in {"bind", "serving", "panic_bind"} =>
          /\ root = merkle_root(<<DemoTx1, DemoTx2>>, policy).val
          /\ status = <<Status(0, 2, hex_encode(root))>>
    /\ \A i \in DOMAIN responses :
          IsStatusResponse(i) =>
              responses[i].response.body
                  = to_string(Status(0, 2, hex_encode(merkle_root(<<DemoTx1, DemoTx2>>, policy).val)))

C8_Witness ==
    /\ Len(responses) = 2
    /\ IsStatusResponse(1)
    /\ ~IsStatusResponse(2)
    /\ responses[1].response.body[4] = "0"
    /\ responses[1].response.body[8] = "2"

(* C9: requests are answered one at a time in arrival order: the requests
   answered, the one being handled and those still queued are exactly the
   arrivals in order, so each request taken gets one response attempt
   before the next is taken, none twice and none skipped. *)
C9_OneAtATimeInOrder ==
    /\ Len(cur) <= 1
    /\ [i \in 1..Len(responses) |-> responses[i].request] \o cur \o incoming = arrived

C9_Witness ==
    /\ Len(responses) = 2
    /\ responses[1].request # responses[2].request
    /\ incoming = <<>>

ExpectedCode(request) == IF request = StatusRequest THEN 200 ELSE 404

(* C10: a response that could not be delivered is ignored: the loop keeps
   serving, the status is unchanged, and every later request is taken and
   answered as it would have been otherwise. *)
C10_RespondFailureIgnored ==
    (\E i \in DOMAIN responses : ~responses[i].delivered) =>
        /\ pc = "serving"
        /\ status = <<Status(height, Len(mempool), hex_encode(root))>>
        /\ cur # <<>> => ENABLED Dispatch
        /\ (cur = <<>> /\ incoming # <<>>) => ENABLED Take
        /\ \A j \in DOMAIN responses :
              responses[j].response.code = ExpectedCode(responses[j].request)

C10_Witness ==
    /\ Len(responses) = 2
    /\ ~responses[1].delivered
    /\ responses[2].delivered
    /\ IsStatusResponse(2)

====
